---- MODULE Spec2Model ----
(***************************************************************************)
(* Model of the live-vision browser client: the React component App, in    *)
(* its two versions (with and without the face count), the WebSocket       *)
(* connections it constructs, and the image decodes its message handler    *)
(* starts.                                                                 *)
(***************************************************************************)
EXTENDS Integers, Sequences, FiniteSets, TLC

\* ---------------------------------------------------------------- bounds
MaxConns == 2
MaxFrames == 2

\* ------------------------------------------------------- WebSocket states
CONNECTING == 0
OPEN == 1
CLOSING == 2
CLOSED == 3

\* ------------------------------------------------------- number values
\* A JavaScript number as the component can hold it: an integer or NaN.
NaN == [nan |-> TRUE, val |-> 0]
Num(n) == [nan |-> FALSE, val |-> n]

\* Text payloads, as sequences of characters.
Digits == {"0", "1", "2", "3", "4", "5", "6", "7", "8", "9"}
DigitVal == [c \in Digits |->
               CASE c = "0" -> 0 [] c = "1" -> 1 [] c = "2" -> 2 [] c = "3" -> 3
                 [] c = "4" -> 4 [] c = "5" -> 5 [] c = "6" -> 6 [] c = "7" -> 7
                 [] c = "8" -> 8 [] c = "9" -> 9]
TextPayloads == { <<"0">>, <<"-", "1", "2">>, <<"a", "b", "c">> }

\* parseInt(s, 10): skip leading white space, take an optional sign, then the
\* longest prefix of decimal digits; NaN when that prefix is empty.
RECURSIVE StripWS(_)
StripWS(s) == IF s # <<>> /\ Head(s) = " " THEN StripWS(Tail(s)) ELSE s

RECURSIVE DigitPrefix(_)
DigitPrefix(s) ==
  IF s # <<>> /\ Head(s) \in Digits THEN <<Head(s)>> \o DigitPrefix(Tail(s)) ELSE <<>>

RECURSIVE MathInt(_)
MathInt(ds) == IF ds = <<>> THEN 0 ELSE 10 * MathInt(SubSeq(ds, 1, Len(ds) - 1)) + DigitVal[ds[Len(ds)]]

ParseIntNoSign(s) ==
  LET t == StripWS(s)
      body == IF t # <<>> /\ Head(t) \in {"+", "-"} THEN Tail(t) ELSE t
      ds == DigitPrefix(body)
  IN IF ds = <<>> THEN NaN ELSE Num(MathInt(ds))

ParseInt(s) ==
  LET t == StripWS(s)
      neg == t # <<>> /\ Head(t) = "-"
      body == IF t # <<>> /\ Head(t) \in {"+", "-"} THEN Tail(t) ELSE t
      ds == DigitPrefix(body)
  IN IF ds = <<>> THEN NaN
     ELSE Num(IF neg THEN 0 - MathInt(ds) ELSE MathInt(ds))

\* ---------------------------------------------------------------- state
VARIABLES
  hasFaceCount,    \* which version of App runs: TRUE the one with useState
  phase,           \* "init", "mounted", "unmounted"
  conns,           \* every WebSocket the render body constructed, in order;
                   \* sent counts the messages the client sent on it
  ws,              \* index of the ws of the latest render body (0: none)
  effWs,           \* index of the ws the committed effect closed over (0: none)
  effectsPending,  \* a commit whose passive effects have not run yet
  faceCount,       \* the useState value of the last commit (what is displayed)
  queue,           \* pending setFaceCount update: <<>> or <<value>>
  lastText,        \* last text payload the handler received: <<>> or <<s>>
  videoRef,        \* videoRef.current: "null" or "canvas"
  ctxState,        \* the canvas's 2D context: "none" or "ok"
  canvas,          \* frame shown on the canvas (0: blank)
  frames,          \* one record per object URL created by the handler
  paintLog         \* ids of the frames painted, in paint order

vars == <<hasFaceCount, phase, conns, ws, effWs, effectsPending, faceCount,
          queue, lastText, videoRef, ctxState, canvas, frames, paintLog>>

NewWebSocket == [readyState |-> CONNECTING, handlers |-> FALSE, closeCalls |-> 0,
                 cleaned |-> FALSE, sent |-> 0]

Init ==
  /\ hasFaceCount \in BOOLEAN
  /\ phase = "init"
  /\ conns = <<>>
  /\ ws = 0
  /\ effWs = 0
  /\ effectsPending = FALSE
  /\ faceCount = Num(0)
  /\ queue = <<>>
  /\ lastText = <<>>
  /\ videoRef = "null"
  /\ ctxState = "none"
  /\ canvas = 0
  /\ frames = <<>>
  /\ paintLog = <<>>

\* ------------------------------------------------------ the effect
\* The effect body: attaches the four handlers to the ws of its render.
EffectSetup(cs, i) == [cs EXCEPT ![i].handlers = TRUE]

\* The effect cleanup: close() only when readyState is 1.
EffectCleanupAnyState(cs, i) ==
  IF i = 0 THEN cs
  ELSE IF cs[i].readyState \in {CONNECTING, OPEN}
       THEN [cs EXCEPT ![i].readyState = CLOSING,
                       ![i].closeCalls = @ + 1,
                       ![i].cleaned = TRUE]
       ELSE [cs EXCEPT ![i].cleaned = TRUE]

EffectCleanupNoClose(cs, i) ==
  IF i = 0 THEN cs ELSE [cs EXCEPT ![i].cleaned = TRUE]

EffectCleanup(cs, i) ==
  IF i = 0 THEN cs
  ELSE IF cs[i].readyState = OPEN
       THEN [cs EXCEPT ![i].readyState = CLOSING,
                       ![i].closeCalls = @ + 1,
                       ![i].cleaned = TRUE]
       ELSE [cs EXCEPT ![i].cleaned = TRUE]

\* ------------------------------------------------------ rendering
\* First render: the body constructs a WebSocket, the commit attaches the
\* canvas to videoRef and schedules the effect.
Mount ==
  /\ phase = "init"
  /\ phase' = "mounted"
  /\ conns' = Append(conns, NewWebSocket)
  /\ ws' = Len(conns) + 1
  /\ videoRef' = "canvas"
  /\ effectsPending' = TRUE
  /\ UNCHANGED <<hasFaceCount, effWs, faceCount, queue, lastText, ctxState,
                 canvas, frames, paintLog>>

\* Re-render after setFaceCount: the body runs again and constructs another
\* WebSocket. When the queued value equals the current state React bails
\* out after the body ran: nothing is committed and no effect is scheduled.
Rerender ==
  /\ phase = "mounted"
  /\ queue # <<>>
  /\ ~effectsPending
  /\ Len(conns) < MaxConns
  /\ conns' = Append(conns, NewWebSocket)
  /\ queue' = <<>>
  /\ IF queue[1] = faceCount
       THEN UNCHANGED <<ws, faceCount, effectsPending>>
       ELSE /\ ws' = Len(conns) + 1
            /\ faceCount' = queue[1]
            /\ effectsPending' = TRUE
  /\ UNCHANGED <<hasFaceCount, phase, effWs, lastText, videoRef, ctxState,
                 canvas, frames, paintLog>>

\* Passive effects of the last commit: the previous effect's cleanup (the
\* dependency [ws] changed), then the new effect body.
FlushEffects ==
  /\ effectsPending
  /\ conns' = EffectSetup(EffectCleanup(conns, effWs), ws)
  /\ effWs' = ws
  /\ effectsPending' = FALSE
  /\ UNCHANGED <<hasFaceCount, phase, ws, faceCount, queue, lastText, videoRef,
                 ctxState, canvas, frames, paintLog>>

\* Unmount: the effect cleanup runs, the ref is detached, pending updates
\* are dropped.
Unmount ==
  /\ phase = "mounted"
  /\ ~effectsPending
  /\ phase' = "unmounted"
  /\ conns' = EffectCleanup(conns, effWs)
  /\ videoRef' = "null"
  /\ queue' = <<>>
  /\ UNCHANGED <<hasFaceCount, ws, effWs, effectsPending, faceCount, lastText,
                 ctxState, canvas, frames, paintLog>>

\* ------------------------------------------------------ the connection
\* The connection is established; onopen only logs.
WsOpenSendsHello(i) ==
  /\ conns[i].readyState = CONNECTING
  /\ conns' = [conns EXCEPT ![i].readyState = OPEN,
                            ![i].sent = IF conns[i].handlers THEN @ + 1 ELSE @]
  /\ UNCHANGED <<hasFaceCount, phase, ws, effWs, effectsPending, faceCount,
                 queue, lastText, videoRef, ctxState, canvas, frames, paintLog>>

WsOpen(i) ==
  /\ conns[i].readyState = CONNECTING
  /\ conns' = [conns EXCEPT ![i].readyState = OPEN]
  /\ UNCHANGED <<hasFaceCount, phase, ws, effWs, effectsPending, faceCount,
                 queue, lastText, videoRef, ctxState, canvas, frames, paintLog>>

\* The closing handshake ends (started by close() or by the server); onclose
\* only logs.
WsClosed(i) ==
  /\ conns[i].readyState \in {OPEN, CLOSING}
  /\ conns' = [conns EXCEPT ![i].readyState = CLOSED]
  /\ UNCHANGED <<hasFaceCount, phase, ws, effWs, effectsPending, faceCount,
                 queue, lastText, videoRef, ctxState, canvas, frames, paintLog>>

\* The connection fails; onerror only logs.
WsError(i) ==
  /\ conns[i].readyState \in {CONNECTING, OPEN}
  /\ conns' = [conns EXCEPT ![i].readyState = CLOSED]
  /\ UNCHANGED <<hasFaceCount, phase, ws, effWs, effectsPending, faceCount,
                 queue, lastText, videoRef, ctxState, canvas, frames, paintLog>>

\* ------------------------------------------------------ ws.onmessage
\* Inbound messages: a text payload, or binary bytes that decode or do not.
Messages ==
  [isText : {TRUE}, text : TextPayloads, decodable : {FALSE}]
    \cup [isText : {FALSE}, text : {<<>>}, decodable : BOOLEAN]

\* setFaceCount(v): no update is queued when nothing is pending and v is the
\* current state (Object.is), nor once the component is unmounted.
SetFaceCount(q, v) ==
  IF phase # "mounted" THEN q
  ELSE IF q = <<>> /\ v = faceCount THEN q
  ELSE <<v>>

\* new Blob / URL.createObjectURL / new Image / img.src = url
NewFrame(m) == [decodable |-> m.decodable, fromText |-> m.isText,
                decode |-> "pending", painted |-> FALSE, revokes |-> 0]

\* The version with the face count takes the text branch for strings; the
\* version without it has no branch and treats every payload as image bytes.
TakesTextBranch(m) == hasFaceCount /\ m.isText

QueueAfterMessage(q, m) ==
  IF TakesTextBranch(m) THEN SetFaceCount(q, ParseInt(m.text)) ELSE q

FramesAfterMessageSerialized(fs, m) ==
  IF TakesTextBranch(m) THEN fs
  ELSE Append([f \in DOMAIN fs |->
                 IF fs[f].decode = "pending" THEN [fs[f] EXCEPT !.decode = "failed"]
                 ELSE fs[f]],
              NewFrame(m))

FramesAfterMessage(fs, m) ==
  IF TakesTextBranch(m) THEN fs ELSE Append(fs, NewFrame(m))

\* A message event is delivered only on an open connection, to the handler
\* the effect attached.
OnMessage(i, m) ==
  /\ conns[i].readyState = OPEN
  /\ conns[i].handlers
  /\ TakesTextBranch(m) \/ Len(frames) < MaxFrames
  /\ queue' = QueueAfterMessage(queue, m)
  /\ frames' = FramesAfterMessage(frames, m)
  /\ lastText' = IF m.isText THEN <<m.text>> ELSE lastText
  /\ UNCHANGED <<hasFaceCount, phase, conns, ws, effWs, effectsPending,
                 faceCount, videoRef, ctxState, canvas, paintLog>>

\* ------------------------------------------------------ img.onload
\* The load callback of frame f; ctx tells whether getContext('2d') returns
\* a context. It draws and revokes only with a mounted canvas and a context.
ImgOnloadRevokeAlways(f, ctx) ==
  IF videoRef = "canvas" /\ ctx
    THEN [frames |-> [frames EXCEPT ![f].decode = "loaded", ![f].painted = TRUE,
                                    ![f].revokes = @ + 1],
          canvas |-> f,
          paintLog |-> Append(paintLog, f)]
    ELSE [frames |-> [frames EXCEPT ![f].decode = "loaded", ![f].revokes = @ + 1],
          canvas |-> canvas,
          paintLog |-> paintLog]

ImgOnloadDropStale(f, ctx) ==
  IF videoRef = "canvas" /\ ctx /\ f > canvas
    THEN [frames |-> [frames EXCEPT ![f].decode = "loaded", ![f].painted = TRUE,
                                    ![f].revokes = @ + 1],
          canvas |-> f,
          paintLog |-> Append(paintLog, f)]
    ELSE [frames |-> [frames EXCEPT ![f].decode = "loaded"],
          canvas |-> canvas,
          paintLog |-> paintLog]

ImgOnloadNoRefCheck(f, ctx) ==
  IF ctx
    THEN [frames |-> [frames EXCEPT ![f].decode = "loaded", ![f].painted = TRUE,
                                    ![f].revokes = @ + 1],
          canvas |-> f,
          paintLog |-> Append(paintLog, f)]
    ELSE [frames |-> [frames EXCEPT ![f].decode = "loaded"],
          canvas |-> canvas,
          paintLog |-> paintLog]

ImgOnload(f, ctx) ==
  IF videoRef = "canvas" /\ ctx
    THEN [frames |-> [frames EXCEPT ![f].decode = "loaded", ![f].painted = TRUE,
                                    ![f].revokes = @ + 1],
          canvas |-> f,
          paintLog |-> Append(paintLog, f)]
    ELSE [frames |-> [frames EXCEPT ![f].decode = "loaded"],
          canvas |-> canvas,
          paintLog |-> paintLog]

\* What getContext('2d') can return: the context once it exists, otherwise a
\* new context or null.
ContextOutcomes == IF ctxState = "ok" THEN {TRUE} ELSE BOOLEAN

OnLoad(f) ==
  /\ frames[f].decode = "pending"
  /\ frames[f].decodable
  /\ \E ctx \in ContextOutcomes :
       LET r == ImgOnload(f, ctx) IN
         /\ frames' = r.frames
         /\ canvas' = r.canvas
         /\ paintLog' = r.paintLog
         /\ ctxState' = IF videoRef = "canvas" /\ ctx THEN "ok" ELSE ctxState
  /\ UNCHANGED <<hasFaceCount, phase, conns, ws, effWs, effectsPending,
                 faceCount, queue, lastText, videoRef>>

\* The bytes do not decode: the image's error event has no handler.
DecodeFailRevokes(f) ==
  /\ frames[f].decode = "pending"
  /\ ~frames[f].decodable
  /\ frames' = [frames EXCEPT ![f].decode = "failed", ![f].revokes = @ + 1]
  /\ UNCHANGED <<hasFaceCount, phase, conns, ws, effWs, effectsPending,
                 faceCount, queue, lastText, videoRef, ctxState, canvas, paintLog>>

DecodeFail(f) ==
  /\ frames[f].decode = "pending"
  /\ ~frames[f].decodable
  /\ frames' = [frames EXCEPT ![f].decode = "failed"]
  /\ UNCHANGED <<hasFaceCount, phase, conns, ws, effWs, effectsPending,
                 faceCount, queue, lastText, videoRef, ctxState, canvas, paintLog>>

\* ------------------------------------------------------ specification
Next ==
  \/ Mount
  \/ Rerender
  \/ FlushEffects
  \/ Unmount
  \/ \E i \in DOMAIN conns : WsOpen(i)
  \/ \E i \in DOMAIN conns : WsClosed(i)
  \/ \E i \in DOMAIN conns : WsError(i)
  \/ \E i \in DOMAIN conns : \E m \in Messages : OnMessage(i, m)
  \/ \E f \in DOMAIN frames : OnLoad(f)
  \/ \E f \in DOMAIN frames : DecodeFail(f)

Spec == Init /\ [][Next]_vars

\* The browser completes a closing handshake that close() started.
FairSpec ==
  Spec /\ WF_vars(\E i \in DOMAIN conns : conns[i].readyState = CLOSING /\ WsClosed(i))

TypeOK ==
  /\ hasFaceCount \in BOOLEAN
  /\ phase \in {"init", "mounted", "unmounted"}
  /\ ws \in 0..Len(conns)
  /\ effWs \in 0..Len(conns)
  /\ canvas \in 0..Len(frames)
  /\ videoRef \in {"null", "canvas"}
  /\ ctxState \in {"none", "ok"}

\* ------------------------------------------------------ helpers of the properties
InFlight == {f \in DOMAIN frames : frames[f].decode = "pending" /\ frames[f].decodable}

TotalCloseCalls ==
  LET RECURSIVE Sum(_)
      Sum(k) == IF k = 0 THEN 0 ELSE conns[k].closeCalls + Sum(k - 1)
  IN Sum(Len(conns))

\* A valid base-10 integer string: an optional sign, then digits only.
IsValidInt(s) ==
  /\ s # <<>>
  /\ LET body == IF s[1] \in {"+", "-"} THEN SubSeq(s, 2, Len(s)) ELSE s
     IN /\ body # <<>>
        /\ \A k \in DOMAIN body : body[k] \in Digits

\* Its value, by positional weights.
RECURSIVE Pow10(_)
Pow10(n) == IF n = 0 THEN 1 ELSE 10 * Pow10(n - 1)

RECURSIVE Weighted(_, _)
Weighted(body, k) ==
  IF k > Len(body) THEN 0
  ELSE DigitVal[body[k]] * Pow10(Len(body) - k) + Weighted(body, k + 1)

IntOf(s) ==
  LET body == IF s[1] \in {"+", "-"} THEN SubSeq(s, 2, Len(s)) ELSE s
  IN IF s[1] = "-" THEN 0 - Weighted(body, 1) ELSE Weighted(body, 1)

\* ------------------------------------------------------ C1
\* C1: between mount and unmount exactly one WebSocket is constructed,
\* whatever messages arrive, and at most one close is issued.
C1_OneConnectionPerMount ==
  phase # "init" => (Len(conns) = 1 /\ TotalCloseCalls <= 1)

\* ------------------------------------------------------ C2
\* C2: once the handler has run on a text message that is a valid base-10
\* integer and no re-render is pending, the displayed face count is the
\* integer of the last text message received.
C2_DisplayedCount ==
  (/\ hasFaceCount
   /\ phase = "mounted"
   /\ queue = <<>>
   /\ lastText # <<>>
   /\ IsValidInt(lastText[1]))
  => faceCount = Num(IntOf(lastText[1]))

C2_Witness ==
  /\ hasFaceCount
  /\ phase = "mounted"
  /\ queue = <<>>
  /\ lastText = << <<"-", "1", "2">> >>
  /\ faceCount = Num(0 - 12)
  /\ Len(conns) = 2

\* ------------------------------------------------------ C3
\* C3: the object URL of a frame is released at most once, only together
\* with the paint of its own frame, and every painted frame has its URL
\* released.
C3_UrlReleasedWithPaint ==
  \A f \in DOMAIN frames :
    /\ frames[f].revokes <= 1
    /\ (frames[f].revokes = 1) <=> frames[f].painted
    /\ frames[f].painted => frames[f].decode = "loaded"

C3_Witness ==
  \E f, g \in DOMAIN frames :
    /\ frames[f].painted /\ frames[f].revokes = 1
    /\ frames[g].decode = "loaded" /\ ~frames[g].painted /\ frames[g].revokes = 0

\* ------------------------------------------------------ C4
\* C4: an unmount while the connection is open calls close on it, the
\* connection then reaches CLOSED, and nothing is painted after the unmount,
\* also not by a decode that was pending at the unmount.
C4_UnmountClosesAndStopsPaints ==
  /\ [][(phase = "mounted" /\ phase' = "unmounted" /\ effWs # 0
           /\ conns[effWs].readyState = OPEN)
          => conns'[effWs].readyState = CLOSING]_vars
  /\ [][phase = "unmounted" => (canvas' = canvas /\ paintLog' = paintLog)]_vars
  /\ (phase = "unmounted" /\ effWs # 0 /\ conns[effWs].readyState = CLOSING)
       ~> (effWs # 0 /\ conns[effWs].readyState = CLOSED)

C4_Witness ==
  /\ phase = "unmounted"
  /\ conns[effWs].closeCalls = 1
  /\ conns[effWs].readyState = CLOSED
  /\ canvas = 1
  /\ Len(frames) = 2
  /\ frames[2].decode = "loaded"
  /\ ~frames[2].painted

\* ------------------------------------------------------ C5
\* C5 as stated: at most one decode is in flight.
C5_AtMostOneInFlight == Cardinality(InFlight) <= 1

\* C5 amended: a message that starts a decode adds exactly one pending
\* decode and leaves every earlier frame, in flight or not, as it was.
C5_NewDecodeCancelsNone ==
  [][Len(frames') # Len(frames)
       => /\ Len(frames') = Len(frames) + 1
          /\ frames'[Len(frames')].decode = "pending"
          /\ \A f \in DOMAIN frames : frames'[f] = frames[f]]_vars

C5_Witness == Cardinality(InFlight) = 2

\* ------------------------------------------------------ C6
\* C6: a text message never allocates an object URL nor starts a decode.
C6_TextNeverDecodes == \A f \in DOMAIN frames : ~frames[f].fromText

\* ------------------------------------------------------ C7
\* C7: the face count is a non-negative integer in every reachable state.
C7_NonNegativeCount ==
  /\ ~faceCount.nan
  /\ faceCount.val >= 0

\* ------------------------------------------------------ C8
\* C8: the cleanup of an effect calls close on its connection exactly when
\* the connection is OPEN at that moment, close is called nowhere else, and
\* no connection receives close more than once.
C8_CloseIffOpenAtCleanup ==
  [][\A i \in DOMAIN conns :
       LET ran == ~conns[i].cleaned /\ conns'[i].cleaned IN
         /\ conns'[i].closeCalls # conns[i].closeCalls => ran
         /\ ran => conns'[i].closeCalls =
                     conns[i].closeCalls + (IF conns[i].readyState = OPEN THEN 1 ELSE 0)
         /\ conns'[i].closeCalls <= 1]_vars

C8_Witness ==
  \E i, j \in DOMAIN conns :
    /\ conns[i].cleaned /\ conns[i].closeCalls = 1
    /\ conns[j].cleaned /\ conns[j].closeCalls = 0 /\ conns[j].readyState = OPEN

\* ------------------------------------------------------ C9
\* C9: a frame is painted when its own decode completes, whatever the
\* arrival order, so the canvas shows the frame whose decode completed last.
C9_PaintInCompletionOrder ==
  /\ [][\A f \in DOMAIN frames :
          (/\ frames[f].decode = "pending"
           /\ frames'[f].decode = "loaded"
           /\ videoRef = "canvas"
           /\ ctxState' = "ok")
          => (canvas' = f /\ paintLog' = Append(paintLog, f))]_vars
  /\ [](paintLog # <<>> => canvas = paintLog[Len(paintLog)])

C9_Witness ==
  /\ paintLog = <<2, 1>>
  /\ canvas = 1
  /\ InFlight = {}

\* ------------------------------------------------------ C10
\* C10: a decode that completes with the canvas unmounted or without a 2D
\* context paints nothing, changes neither the face count nor any
\* connection, and its object URL is never released.
C10_DroppedFrame ==
  /\ [][\A f \in DOMAIN frames :
          (/\ frames[f].decode = "pending"
           /\ frames'[f].decode = "loaded"
           /\ (videoRef = "null" \/ ctxState' = "none"))
          => /\ canvas' = canvas
             /\ paintLog' = paintLog
             /\ faceCount' = faceCount
             /\ queue' = queue
             /\ conns' = conns
             /\ ~frames'[f].painted
             /\ frames'[f].revokes = 0]_vars
  /\ [](\A f \in DOMAIN frames :
          (frames[f].decode = "loaded" /\ ~frames[f].painted) => frames[f].revokes = 0)

C10_Witness ==
  \E f, g \in DOMAIN frames :
    /\ f # g
    /\ frames[f].decode = "loaded" /\ ~frames[f].painted /\ frames[f].revokes = 0
    /\ frames[g].decode = "loaded" /\ ~frames[g].painted /\ frames[g].revokes = 0
    /\ phase = "unmounted"
    /\ ctxState = "none"

\* ------------------------------------------------------ C11
\* C11: a frame whose bytes fail to decode never paints: the step in which
\* the decode fails leaves the canvas, the face count and every connection
\* as they were, and the frame's object URL is never released.
C11_FailedDecode ==
  /\ [][\A f \in DOMAIN frames :
          (frames[f].decode = "pending" /\ frames'[f].decode = "failed")
          => /\ canvas' = canvas
             /\ paintLog' = paintLog
             /\ faceCount' = faceCount
             /\ queue' = queue
             /\ conns' = conns
             /\ phase' = phase]_vars
  /\ [](\A f \in DOMAIN frames :
          ~frames[f].decodable
          => /\ ~frames[f].painted
             /\ frames[f].revokes = 0
             /\ canvas # f
             /\ frames[f].decode \in {"pending", "failed"})

C11_Witness ==
  /\ hasFaceCount
  /\ Len(frames) = 2
  /\ frames[1].painted
  /\ frames[2].decode = "failed"
  /\ ~frames[2].fromText
  /\ frames[2].revokes = 0
  /\ canvas = 1

\* ------------------------------------------------------ C12
\* C12: an error or close event only logs, and once the connection of the
\* latest render has closed or errored the component constructs no further
\* connection.
C12_NoConnectionAfterClose ==
  [][/\ (\E i \in DOMAIN conns :
           conns[i].readyState # CLOSED /\ conns'[i].readyState = CLOSED)
        => /\ Len(conns') = Len(conns)
           /\ faceCount' = faceCount
           /\ canvas' = canvas
           /\ \A i \in DOMAIN conns : conns'[i].closeCalls = conns[i].closeCalls
     /\ (ws # 0 /\ conns[ws].readyState = CLOSED) => Len(conns') = Len(conns)]_vars

\* ------------------------------------------------------ C13
\* C13: the client sends nothing: on every connection the component
\* constructed the number of client-to-server messages is zero, also after
\* it opened and after it delivered text and binary messages.
C13_ClientNeverSends == \A i \in DOMAIN conns : conns[i].sent = 0

C13_Witness ==
  \E i \in DOMAIN conns :
    /\ conns[i].readyState = OPEN
    /\ conns[i].handlers
    /\ conns[i].sent = 0
    /\ lastText # <<>>
    /\ frames # <<>>
    /\ ~frames[1].fromText

\* ------------------------------------------------------ C14
\* C14: after the unmount no connection the component constructed is open
\* (none can deliver messages); in particular one that was connecting when
\* the cleanup ran does not become open afterwards.
C14_NoOpenAfterUnmount ==
  phase = "unmounted" => \A i \in DOMAIN conns : conns[i].readyState # OPEN

\* ------------------------------------------------------ C15
\* C15: whenever the effects of the latest render have run, at most one
\* connection the component constructed is connecting or open.
LiveConns == {i \in DOMAIN conns : conns[i].readyState \in {CONNECTING, OPEN}}

C15_AtMostOneLiveConnection ==
  (phase = "mounted" /\ ~effectsPending /\ queue = <<>>) => Cardinality(LiveConns) <= 1

====
